---- MODULE Spec2Model ----
(***************************************************************************)
(* A model of gpreplicator/GPReplicator.py: the GiteeTransport class (the  *)
(* JSON decoder _ParseJSON, the request/retry transport SendAPIRequest and *)
(* the resource accessors Files .. Repositories), with caller threads and  *)
(* the remote server as the environment.                                   *)
(***************************************************************************)
EXTENDS Integers, Sequences, FiniteSets, TLC

(***************************************************************************)
(* Bounds of the model.                                                    *)
(***************************************************************************)
\* the largest value a caller gives the retry field
MaxRetry == 3

(***************************************************************************)
(* Python values.  Every value is a record [t, v] whose tag t is compared  *)
(* first: None, str, int, list (a sequence of values), dict (a sequence of *)
(* [k, v] pairs with distinct keys, in insertion order).                   *)
(***************************************************************************)
None == [t |-> "None", v |-> 0]
PyStr(s) == [t |-> "str", v |-> s]
PyInt(n) == [t |-> "int", v |-> n]
PyList(xs) == [t |-> "list", v |-> xs]
PyDict(kvs) == [t |-> "dict", v |-> kvs]
EmptyDict == PyDict(<<>>)
EmptyList == PyList(<<>>)

\* isinstance(x, dict), isinstance(x, list)
IsDict(x) == x.t = "dict"
IsList(x) == x.t = "list"

\* Python truthiness: `if x`, `not x`
Truthy(x) ==
    CASE x.t = "None" -> FALSE
      [] x.t = "str" -> x.v # ""
      [] x.t = "int" -> x.v # 0
      [] x.t = "list" -> Len(x.v) > 0
      [] x.t = "dict" -> Len(x.v) > 0
      [] OTHER -> TRUE

\* `k in d.keys()` for a dict d
HasKey(d, k) == \E i \in 1..Len(d.v) : d.v[i].k = k

\* d[k] for a dict d that has the key k
Lookup(d, k) == d.v[CHOOSE i \in 1..Len(d.v) : d.v[i].k = k].v

\* d[k] = x on the pair sequence of a dict: a repeated key keeps its place
\* and takes the last value
SetKey(kvs, k, x) ==
    IF \E i \in 1..Len(kvs) : kvs[i].k = k
    THEN [i \in 1..Len(kvs) |-> IF kvs[i].k = k THEN [k |-> k, v |-> x] ELSE kvs[i]]
    ELSE Append(kvs, [k |-> k, v |-> x])

(***************************************************************************)
(* Text.  A response body (or any JSON source string) is a sequence of     *)
(* tokens: punctuation, a quoted string, a number, or a bare word (text    *)
(* that is no JSON token, as in an HTML error page).                       *)
(***************************************************************************)
TP(s) == [k |-> "punct", s |-> s, n |-> 0]
TS(s) == [k |-> "string", s |-> s, n |-> 0]
TN(n) == [k |-> "number", s |-> "", n |-> n]
TW(s) == [k |-> "word", s |-> s, n |-> 0]

\* `w in text` for a word w: some quoted string or bare word of the text is w
Contains(text, w) ==
    \E i \in 1..Len(text) : text[i].k \in {"string", "word"} /\ text[i].s = w

(***************************************************************************)
(* json.loads on a token sequence, by recursive descent.  A parse result   *)
(* is [ok, val, next]: next is the position after the value parsed.        *)
(***************************************************************************)
ParseFail == [ok |-> FALSE, val |-> None, next |-> 0]
ParseOk(x, n) == [ok |-> TRUE, val |-> x, next |-> n]
IsPunct(text, i, s) == i <= Len(text) /\ text[i] = TP(s)

RECURSIVE ParseValue(_, _), ParseElems(_, _, _), ParseMembers(_, _, _)
\* a value starting at position i
ParseValue(text, i) ==
    IF i > Len(text) THEN ParseFail
    ELSE IF text[i].k = "number" THEN ParseOk(PyInt(text[i].n), i + 1)
    ELSE IF text[i].k = "string" THEN ParseOk(PyStr(text[i].s), i + 1)
    ELSE IF text[i] = TP("[") THEN
        IF IsPunct(text, i + 1, "]") THEN ParseOk(EmptyList, i + 2)
        ELSE ParseElems(text, i + 1, <<>>)
    ELSE IF text[i] = TP("{") THEN
        IF IsPunct(text, i + 1, "}") THEN ParseOk(EmptyDict, i + 2)
        ELSE ParseMembers(text, i + 1, <<>>)
    ELSE ParseFail

\* the elements of a list after "[" or ",": acc holds those already parsed
ParseElems(text, i, acc) ==
    LET r == ParseValue(text, i) IN
    IF ~r.ok THEN ParseFail
    ELSE IF IsPunct(text, r.next, "]") THEN ParseOk(PyList(Append(acc, r.val)), r.next + 1)
    ELSE IF IsPunct(text, r.next, ",") THEN ParseElems(text, r.next + 1, Append(acc, r.val))
    ELSE ParseFail

\* the members of an object after "{" or ",": acc holds those already parsed
ParseMembers(text, i, acc) ==
    IF ~(i + 1 <= Len(text) /\ text[i].k = "string" /\ text[i + 1] = TP(":")) THEN ParseFail
    ELSE
        LET r == ParseValue(text, i + 2) IN
        IF ~r.ok THEN ParseFail
        ELSE IF IsPunct(text, r.next, "}")
            THEN ParseOk(PyDict(SetKey(acc, text[i].s, r.val)), r.next + 1)
        ELSE IF IsPunct(text, r.next, ",")
            THEN ParseMembers(text, r.next + 1, SetKey(acc, text[i].s, r.val))
        ELSE ParseFail

\* json.loads(text): [ok, val]; it fails on text that is no single JSON value
JsonLoads(text) ==
    LET r == ParseValue(text, 1) IN
    IF r.ok /\ r.next = Len(text) + 1 THEN [ok |-> TRUE, val |-> r.val]
    ELSE [ok |-> FALSE, val |-> None]

\* Raw data handed to _ParseJSON: text ([t |-> "text", v |-> tokens]) or a
\* Python value that is no string.
PyText(text) == [t |-> "text", v |-> text]

\* `if rawData`: false for "", None, 0, [] and {}
RawTruthy(rawData) ==
    IF rawData.t = "text" THEN Len(rawData.v) > 0 ELSE Truthy(rawData)

\* json.loads(rawData): data that is no string raises TypeError
Loads(rawData) ==
    IF rawData.t = "text" THEN JsonLoads(rawData.v) ELSE [ok |-> FALSE, val |-> None]

\* (mutant) data that is no string is taken as parsed already and returned
_ParseJSONPassThrough(rawData) ==
    IF rawData.t # "text" THEN rawData
    ELSE IF RawTruthy(rawData) /\ Loads(rawData).ok THEN Loads(rawData).val
    ELSE EmptyDict

\* (mutant) a decoded value that is no mapping is replaced by {}
_ParseJSONMappingOnly(rawData) ==
    IF RawTruthy(rawData) /\ Loads(rawData).ok /\ IsDict(Loads(rawData).val)
    THEN Loads(rawData).val
    ELSE EmptyDict

\* _ParseJSON(rawData): `json.loads(rawData) if rawData else {}`, and {}
\* from the except clause when json.loads raises (malformed text, or data
\* that is no string)
_ParseJSON(rawData) ==
    IF ~RawTruthy(rawData) THEN EmptyDict
    ELSE IF Loads(rawData).ok THEN Loads(rawData).val
    ELSE EmptyDict

(***************************************************************************)
(* Outcomes of a call or of a step that may raise.                         *)
(***************************************************************************)
NoResult == [st |-> "none", val |-> None]
Returned(x) == [st |-> "return", val |-> x]
Raised(e) == [st |-> "raise", val |-> PyStr(e)]

\* x[k] as the code subscripts a decoded value with a string key
Subscript(x, k) ==
    IF IsDict(x) THEN (IF HasKey(x, k) THEN Returned(Lookup(x, k)) ELSE Raised("KeyError"))
    ELSE Raised("TypeError")

(***************************************************************************)
(* HTTP responses.  NoResponse is the None the loop starts with.  A        *)
(* requests.Response is truthy exactly when its status is no 4xx or 5xx.   *)
(***************************************************************************)
NoResponse == [status |-> 0, text |-> <<>>]
Response(status, text) == [status |-> status, text |-> text]
Is4xx(r) == 400 <= r.status /\ r.status < 500
Is5xx(r) == 500 <= r.status /\ r.status < 600
\* `not response` in the loop condition
NotResponse(r) == r = NoResponse \/ Is4xx(r) \/ Is5xx(r)

\* the class of a response, as the events of a call record it
StatusClass(r) == IF Is4xx(r) THEN "4xx" ELSE IF Is5xx(r) THEN "5xx" ELSE "ok"

\* the diagnostic both error branches run: when the body holds the words
\* code and message it is decoded and its "message" is read for the log
ErrorPayload(r) ==
    IF Contains(r.text, "code") /\ Contains(r.text, "message")
    THEN Subscript(_ParseJSON(PyText(r.text)), "message")
    ELSE Returned(None)

(***************************************************************************)
(* Request methods.  str.upper() on the spellings the model offers.        *)
(***************************************************************************)
Upper(s) ==
    CASE s \in {"GET", "get", "Get"} -> "GET"
      [] s \in {"POST", "post", "Post"} -> "POST"
      [] s \in {"PUT", "put"} -> "PUT"
      [] OTHER -> s

\* the guard of SendAPIRequest: reqType.upper() in ("GET", "POST")
ValidReqType(reqType) == Upper(reqType) \in {"GET", "POST"}

\* the method an attempt sends: requests.get for "GET", requests.post for
\* "POST", nothing for any other spelling
IssuesRequest(reqType) == reqType \in {"GET", "POST"}

(***************************************************************************)
(* The accessors' work on the value SendAPIRequest returned.               *)
(***************************************************************************)
ListAccessors == {"Issues", "Milestones", "Releases", "Tags", "Branches", "Repositories"}
Accessors == {"Files", "GetFile"} \cup ListAccessors

\* the configuration fields each accessor's guard requires
Required(name) ==
    CASE name \in {"Files", "GetFile"} -> {"gOwner", "gProject", "gSHA"}
      [] name = "Repositories" -> {"gToken"}
      [] OTHER -> {"gOwner", "gProject"}

\* (mutant) the guard tests only `is None`: an empty string passes
MissingNoneOnly(value) == value = None

\* the guard `self.f is None or not self.f` for one field value
Missing(value) == value = None \/ ~Truthy(value)

\* the keys of an item each summary line reads
ItemKeys(name) ==
    CASE name = "Files" -> {"path", "type", "sha", "size"}
      [] name = "Issues" -> {"state", "issue_type", "created_at", "title", "milestone"}
      [] name = "Milestones" ->
            {"state", "created_at", "due_on", "title", "open_issues", "closed_issues"}
      [] name = "Releases" -> {"created_at", "tag_name", "name", "prerelease"}
      [] name = "Tags" -> {"commit", "name"}
      [] name = "Branches" -> {"name", "protected"}
      [] OTHER -> {"full_name", "description", "license", "public", "fork",
                   "watchers_count", "forks_count", "stargazers_count"}

\* the keys whose values a summary line uses as strings: split('T') in the
\* list accessors, "+" in Files
StrKeys(name) ==
    CASE name = "Files" -> {"path"}
      [] name = "Issues" -> {"created_at"}
      [] name = "Milestones" -> {"created_at", "due_on"}
      [] name = "Releases" -> {"created_at"}
      [] OTHER -> {}

\* the nested read of a summary line: item['commit']['date'] in Tags, and
\* item['milestone']['title'] in Issues when the milestone is truthy
NestedRead(name, item) ==
    CASE name = "Tags" -> Subscript(Lookup(item, "commit"), "date")
      [] name = "Issues" /\ Truthy(Lookup(item, "milestone")) ->
            Subscript(Lookup(item, "milestone"), "title")
      [] OTHER -> Returned(PyStr(""))

\* the error building one summary line raises, or "" when it raises none
ItemError(name, item) ==
    IF ~IsDict(item) THEN "TypeError"
    ELSE IF \E k \in ItemKeys(name) : ~HasKey(item, k) THEN "KeyError"
    ELSE IF \E k \in StrKeys(name) : Lookup(item, k).t # "str"
        THEN (IF name = "Files" THEN "TypeError" ELSE "AttributeError")
    ELSE IF NestedRead(name, item).st = "raise" THEN NestedRead(name, item).val.v
    ELSE IF NestedRead(name, item).val.t # "str"
        THEN (IF name = "Tags" THEN "AttributeError" ELSE "TypeError")
    ELSE ""

\* the summary loop over the items: the first error raised, or "" for none
SummaryError(name, items) ==
    IF \A i \in 1..Len(items) : ItemError(name, items[i]) = "" THEN ""
    ELSE ItemError(name, items[CHOOSE i \in 1..Len(items) :
            /\ ItemError(name, items[i]) # ""
            /\ \A j \in 1..(i - 1) : ItemError(name, items[j]) = ""])

\* len(x) is defined on str, list and dict (its result is nonzero exactly
\* when x is truthy)
HasLen(x) == x.t \in {"str", "list", "dict"}

\* (mutant) the value is returned as it came, without the else branch
ListResultRaw(name, x) ==
    IF ~HasLen(x) THEN Raised("TypeError")
    ELSE IF IsList(x) /\ Truthy(x) /\ SummaryError(name, x.v) # ""
        THEN Raised(SummaryError(name, x.v))
    ELSE Returned(x)

\* Issues .. Repositories after the transport call: the list itself when
\* it is a non-empty list (once its summary is built), else []
ListResult(name, x) ==
    IF ~HasLen(x) THEN Raised("TypeError")
    ELSE IF IsList(x) /\ Truthy(x) THEN
        (IF SummaryError(name, x.v) = "" THEN Returned(x)
         ELSE Raised(SummaryError(name, x.v)))
    ELSE Returned(EmptyList)

\* Files after the transport call: the mapping itself when it has the key
\* tree (once the summary of a non-empty tree is built), else {}
FilesResult(x) ==
    IF IsDict(x) /\ HasKey(x, "tree") THEN
        LET tree == Lookup(x, "tree") IN
        IF ~HasLen(tree) THEN Raised("TypeError")
        ELSE IF ~Truthy(tree) THEN Returned(x)
        ELSE IF ~IsList(tree) THEN Raised("TypeError")
        ELSE IF SummaryError("Files", tree.v) = "" THEN Returned(x)
        ELSE Raised(SummaryError("Files", tree.v))
    ELSE Returned(EmptyDict)

\* base64.b64decode(s, validate=True).decode('unicode_escape') on the
\* payloads the model offers: [ok, text, err].  "aGk=" encodes hi; "XA=="
\* encodes a single backslash, which the unicode_escape codec rejects; any
\* other payload is no base64 at all
B64Decode(s) ==
    CASE s = "aGk=" -> [ok |-> TRUE, text |-> "hi", err |-> ""]
      [] s = "" -> [ok |-> TRUE, text |-> "", err |-> ""]
      [] s = "XA==" -> [ok |-> FALSE, text |-> "", err |-> "UnicodeDecodeError"]
      [] OTHER -> [ok |-> FALSE, text |-> "", err |-> "binascii.Error"]

\* GetFile after the transport call: the decoded content when the mapping
\* has content and size, else ""
GetFileResult(x) ==
    IF IsDict(x) /\ HasKey(x, "content") /\ HasKey(x, "size") THEN
        LET c == Lookup(x, "content") IN
        IF c.t # "str" THEN Raised("TypeError")
        ELSE IF ~B64Decode(c.v).ok THEN Raised(B64Decode(c.v).err)
        ELSE Returned(PyStr(B64Decode(c.v).text))
    ELSE Returned(PyStr(""))

\* whether GetFile reaches the branch that may save the content
GetFileHasContent(x) ==
    /\ IsDict(x) /\ HasKey(x, "content") /\ HasKey(x, "size")
    /\ GetFileResult(x).st = "return"

\* the value (or error) an accessor ends with, given the transport's value
AccessorResult(name, x) ==
    CASE name = "Files" -> FilesResult(x)
      [] name = "GetFile" -> GetFileResult(x)
      [] OTHER -> ListResult(name, x)


(***************************************************************************)
(* The environment: caller threads, client instances, and what the server  *)
(* may answer.                                                             *)
(***************************************************************************)
Threads == {"t1", "t2"}
Instances == {"i1", "i2"}
NoThread == "none"

\* the values a caller (or the environment variables read by __init__)
\* gives gToken, gOwner, gProject and gSHA
FieldValues == {None, PyStr(""), PyStr("v")}

\* the spellings of reqType a caller passes to SendAPIRequest
ReqTypes == {"GET", "POST", "get", "Post", "PUT"}

\* response bodies
TextEmpty == <<>>
TextHtml == <<TW("oops")>>
TextWords == <<TW("code"), TW("message")>>
TextError == <<TP("{"), TS("code"), TP(":"), TN(1), TP(","),
               TS("message"), TP(":"), TS("m"), TP("}")>>
TextList0 == <<TP("["), TP("]")>>
TextList1 == <<TP("["), TP("{"), TS("name"), TP(":"), TS("n"), TP(","),
               TS("protected"), TP(":"), TN(1), TP("}"), TP("]")>>
TextTree == <<TP("{"), TS("sha"), TP(":"), TS("s"), TP(","),
              TS("tree"), TP(":"), TP("["), TP("]"), TP("}")>>
TextTreeFile == <<TP("{"), TS("sha"), TP(":"), TS("s"), TP(","),
                  TS("tree"), TP(":"), TP("["),
                  TP("{"), TS("path"), TP(":"), TS("p"), TP(","),
                  TS("type"), TP(":"), TS("blob"), TP(","),
                  TS("sha"), TP(":"), TS("s"), TP(","),
                  TS("size"), TP(":"), TN(1), TP("}"),
                  TP("]"), TP("}")>>
TextTreeBare == <<TP("{"), TS("tree"), TP(":"), TP("["),
                  TP("{"), TS("path"), TP(":"), TS("p"), TP("}"),
                  TP("]"), TP("}")>>
TextBlob == <<TP("{"), TS("content"), TP(":"), TS("aGk="), TP(","),
              TS("size"), TP(":"), TN(2), TP("}")>>
TextBlobEmpty == <<TP("{"), TS("content"), TP(":"), TS(""), TP(","),
                   TS("size"), TP(":"), TN(0), TP("}")>>
TextBlobBackslash == <<TP("{"), TS("content"), TP(":"), TS("XA=="), TP(","),
                       TS("size"), TP(":"), TN(1), TP("}")>>
TextNumber == <<TN(123)>>
Texts == {TextEmpty, TextHtml, TextWords, TextError, TextList0, TextList1,
          TextTree, TextTreeFile, TextTreeBare, TextBlob, TextNumber}

\* the bodies the server sends with an error status: empty, text with the
\* words code and message that is no JSON, and the JSON error object
ErrorTexts == {TextEmpty, TextWords, TextError}

\* what the server may answer: success with any body, a redirect that was
\* not followed, and client and server errors
Responses ==
    {Response(200, tx) : tx \in Texts}
        \cup {Response(302, tx) : tx \in {TextEmpty, TextList0}}
        \cup {Response(st, tx) : st \in {404, 500}, tx \in ErrorTexts}

\* the answers offered when two threads call at once
FewResponses ==
    {Response(200, TextList0), Response(404, TextError),
     Response(500, TextEmpty), Response(500, TextWords)}

VARIABLES
    inst,           \* the client instance each thread calls
    lock,           \* per instance: the thread holding self.__lock, or NoThread
    retry,          \* per instance: self.retry
    gToken,         \* per instance: self.gToken
    gOwner,         \* per instance: self.gOwner
    gProject,       \* per instance: self.gProject
    gSHA,           \* per instance: self.gSHA
    save,           \* per instance: self.save
    body,           \* per instance: self.body
    files,          \* per instance: the local files GetFile has written
    pc,             \* per thread: where its call stands
    kind,           \* per thread: the public method its caller invoked
    reqType,        \* per thread: SendAPIRequest's reqType
    counter,        \* per thread: SendAPIRequest's counter
    response,       \* per thread: SendAPIRequest's response
    errMsg,         \* per thread: SendAPIRequest's errMsg (the 5xx response it formats)
    responseJSON,   \* per thread: SendAPIRequest's responseJSON
    ret,            \* per thread: what SendAPIRequest returned to its caller
    result,         \* per thread: what the call returned or raised
    sent,           \* per thread: the last HTTP request the call issued
    trace,          \* per thread: the events of the call so far
    logged,         \* per thread: the error-level message was emitted at the end
    rawData,        \* the argument of a direct _ParseJSON call
    parsed,         \* what that _ParseJSON call ended with
    args,           \* Main: the parsed command line
    mainPc,         \* Main: where the front end stands
    exitCode,       \* Main: exitCode
    ran             \* Main: the commands it has invoked so far, in order

cfgVars == <<inst, lock, retry, gToken, gOwner, gProject, gSHA, save, body, files>>
localVars == <<reqType, counter, response, errMsg, responseJSON, sent, logged>>
thVars == <<pc, kind, ret, result, trace, localVars>>
parseVars == <<rawData, parsed>>
mainVars == <<args, mainPc, exitCode, ran>>
vars == <<cfgVars, thVars, parseVars, mainVars>>

\* the request body an accessor sets: access_token=<gToken>
FormBody(token) == [t |-> "form", v |-> token.v]
NoRequest == [method |-> "", body |-> None]

\* the locked section of SendAPIRequest
InSection == {"loop", "inflight", "sleep"}

\* f with the value at key k replaced by x
Upd(f, k, x) == [f EXCEPT ![k] = x]

(***************************************************************************)
(* Init: each instance as __init__ leaves it.  retry is 3, body is None,   *)
(* save is False, the lock is free; gToken, gOwner and gProject come from  *)
(* the environment variables, set here by the callers' Set actions.        *)
(***************************************************************************)
DefaultRetry == 3

InitInstances ==
    /\ lock = [i \in Instances |-> NoThread]
    /\ retry = [i \in Instances |-> DefaultRetry]
    /\ gToken = [i \in Instances |-> None]
    /\ gOwner = [i \in Instances |-> None]
    /\ gProject = [i \in Instances |-> None]
    /\ gSHA = [i \in Instances |-> None]
    /\ save = [i \in Instances |-> FALSE]
    /\ body = [i \in Instances |-> None]
    /\ files = [i \in Instances |-> {}]

InitThreads ==
    /\ pc = [t \in Threads |-> "idle"]
    /\ kind = [t \in Threads |-> ""]
    /\ reqType = [t \in Threads |-> ""]
    /\ counter = [t \in Threads |-> 0]
    /\ response = [t \in Threads |-> NoResponse]
    /\ errMsg = [t \in Threads |-> NoResponse]
    /\ responseJSON = [t \in Threads |-> EmptyDict]
    /\ ret = [t \in Threads |-> NoResult]
    /\ result = [t \in Threads |-> NoResult]
    /\ sent = [t \in Threads |-> NoRequest]
    /\ trace = [t \in Threads |-> <<>>]
    /\ logged = [t \in Threads |-> FALSE]

\* no direct _ParseJSON call has been made
InitParse ==
    /\ rawData = None
    /\ parsed = NoResult

\* the front end is not running: the class is used as a library
NoArgs == [commands |-> {}, token |-> None, owner |-> None, project |-> None,
           sha |-> None, save |-> FALSE]

InitMain ==
    /\ args = NoArgs
    /\ mainPc = "off"
    /\ exitCode = 0
    /\ ran = <<>>

Init ==
    /\ inst = [t \in Threads |-> "i1"]
    /\ InitInstances
    /\ InitThreads
    /\ InitParse
    /\ InitMain

(***************************************************************************)
(* The caller sets a configuration field of an instance.                   *)
(***************************************************************************)
SetRetry(i, n) ==
    /\ retry' = Upd(retry, i, n)
    /\ UNCHANGED <<inst, lock, gToken, gOwner, gProject, gSHA, save, body, files, thVars>>

SetToken(i, value) ==
    /\ gToken' = Upd(gToken, i, value)
    /\ UNCHANGED <<inst, lock, retry, gOwner, gProject, gSHA, save, body, files, thVars>>

SetOwner(i, value) ==
    /\ gOwner' = Upd(gOwner, i, value)
    /\ UNCHANGED <<inst, lock, retry, gToken, gProject, gSHA, save, body, files, thVars>>

SetProject(i, value) ==
    /\ gProject' = Upd(gProject, i, value)
    /\ UNCHANGED <<inst, lock, retry, gToken, gOwner, gSHA, save, body, files, thVars>>

SetSHA(i, value) ==
    /\ gSHA' = Upd(gSHA, i, value)
    /\ UNCHANGED <<inst, lock, retry, gToken, gOwner, gProject, save, body, files, thVars>>

SetSave(i, value) ==
    /\ save' = Upd(save, i, value)
    /\ UNCHANGED <<inst, lock, retry, gToken, gOwner, gProject, gSHA, body, files, thVars>>

(***************************************************************************)
(* A call ends: thread t gets res.  An exception raised inside the `with`  *)
(* block, like the normal end of the block, releases the lock.             *)
(***************************************************************************)
Release(t) == IF lock[inst[t]] = t THEN Upd(lock, inst[t], NoThread) ELSE lock

\* (mutant) acquire()/release() without try/finally: an exception leaves
\* the lock held
EndCallLeaking(t, res) ==
    /\ pc' = Upd(pc, t, "done")
    /\ result' = Upd(result, t, res)
    /\ lock' = IF res.st = "raise" THEN lock ELSE Release(t)

EndCall(t, res) ==
    /\ pc' = Upd(pc, t, "done")
    /\ result' = Upd(result, t, res)
    /\ lock' = Release(t)

(***************************************************************************)
(* SendAPIRequest up to the lock: a reqType whose upper-case form is not   *)
(* GET or POST raises; any other waits for the lock.                       *)
(***************************************************************************)
EnterSendAPIRequest(t, rt) ==
    /\ reqType' = Upd(reqType, t, rt)
    /\ IF ValidReqType(rt)
       THEN /\ pc' = Upd(pc, t, "acquire")
            /\ UNCHANGED <<result, lock>>
       ELSE EndCall(t, Raised("Incorrect value"))

\* a caller invokes SendAPIRequest(url, reqType) itself
SendAPIRequest(t, rt) ==
    /\ pc[t] = "idle"
    /\ kind' = Upd(kind, t, "SendAPIRequest")
    /\ EnterSendAPIRequest(t, rt)
    /\ UNCHANGED <<inst, retry, gToken, gOwner, gProject, gSHA, save, body, files>>
    /\ UNCHANGED <<ret, counter, response, errMsg, responseJSON, sent, logged, trace>>

(***************************************************************************)
(* The accessors up to the transport call: the guard on the required       *)
(* fields, then self.body, then SendAPIRequest(url, "GET").                *)
(***************************************************************************)
Field(i, f) ==
    CASE f = "gOwner" -> gOwner[i]
      [] f = "gProject" -> gProject[i]
      [] f = "gSHA" -> gSHA[i]
      [] OTHER -> gToken[i]

\* the guard at the head of each accessor
MissingConfiguration(name, i) == \E f \in Required(name) : Missing(Field(i, f))

\* (mutant) only `self.gToken is not None` is tested: an empty token is
\* formatted into the body
TokenBodyNotNone(token) == IF token # None THEN FormBody(token) ELSE None

\* self.body = f"access_token={self.gToken}" if self.gToken is not None and self.gToken else None
TokenBody(token) == IF token # None /\ Truthy(token) THEN FormBody(token) ELSE None

\* (mutant) self.body is assigned before the guard is tested
BodyAssignedBeforeGuard(t) == TokenBody(gToken[inst[t]])

\* self.body when the guard raises: the assignment comes after the guard,
\* so the body is the one the call found
BodyWhenGuardRaises(t) == body[inst[t]]

Accessor(t, name) ==
    /\ pc[t] = "idle"
    /\ kind' = Upd(kind, t, name)
    /\ IF MissingConfiguration(name, inst[t])
       THEN /\ EndCall(t, Raised("Some parameters are required"))
            /\ body' = Upd(body, inst[t], BodyWhenGuardRaises(t))
            /\ UNCHANGED reqType
       ELSE /\ body' = Upd(body, inst[t], TokenBody(gToken[inst[t]]))
            /\ EnterSendAPIRequest(t, "GET")
    /\ UNCHANGED <<inst, retry, gToken, gOwner, gProject, gSHA, save, files>>
    /\ UNCHANGED <<ret, counter, response, errMsg, responseJSON, sent, logged, trace>>

Files(t) == Accessor(t, "Files")
GetFile(t) == Accessor(t, "GetFile")
Issues(t) == Accessor(t, "Issues")
Milestones(t) == Accessor(t, "Milestones")
Releases(t) == Accessor(t, "Releases")
Tags(t) == Accessor(t, "Tags")
Branches(t) == Accessor(t, "Branches")
Repositories(t) == Accessor(t, "Repositories")

(***************************************************************************)
(* SendAPIRequest inside the lock.                                         *)
(***************************************************************************)
\* (mutant) the lock is taken without waiting for its holder
LockFreeUnchecked(t) == TRUE

\* (mutant) one lock for the class: a holder on any instance blocks
LockFreeOnEveryInstance(t) == \A i \in Instances : lock[i] = NoThread

\* `with self.__lock:` blocks until no thread holds the instance's lock
LockFree(t) == lock[inst[t]] = NoThread

\* `with self.__lock:` and the four assignments before the loop
Acquire(t) ==
    /\ pc[t] = "acquire"
    /\ LockFree(t)
    /\ lock' = Upd(lock, inst[t], t)
    /\ counter' = Upd(counter, t, 0)
    /\ response' = Upd(response, t, NoResponse)
    /\ errMsg' = Upd(errMsg, t, NoResponse)
    /\ responseJSON' = Upd(responseJSON, t, EmptyDict)
    /\ pc' = Upd(pc, t, "loop")
    /\ UNCHANGED <<inst, retry, gToken, gOwner, gProject, gSHA, save, body, files>>
    /\ UNCHANGED <<kind, reqType, ret, result, sent, logged, trace>>

\* (mutant) the loop allows one attempt more: counter <= self.retry + 1
LoopConditionOneMore(t) == NotResponse(response[t]) /\ counter[t] <= retry[inst[t]] + 1

\* `while not response and counter <= self.retry`
LoopCondition(t) == NotResponse(response[t]) /\ counter[t] <= retry[inst[t]]

\* (mutant) the body is read once, for the first attempt of the call, and
\* the later attempts send that one
RequestBodyReadOnce(t) == IF sent[t] = NoRequest THEN body[inst[t]] ELSE sent[t].body

\* `data=self.body`: each attempt reads the instance's body anew
RequestBody(t) == body[inst[t]]

\* one pass of the loop begins: requests.get or requests.post is called
\* with the shared body
IssueRequest(t) ==
    /\ pc[t] = "loop"
    /\ LoopCondition(t)
    /\ IssuesRequest(reqType[t])
    /\ sent' = Upd(sent, t, [method |-> reqType[t], body |-> RequestBody(t)])
    /\ trace' = Upd(trace, t, Append(trace[t], "request"))
    /\ pc' = Upd(pc, t, "inflight")
    /\ UNCHANGED <<cfgVars, kind, ret, result, reqType, counter, response, errMsg,
                   responseJSON, logged>>

\* one pass of the loop with a reqType that is neither "GET" nor "POST":
\* no request is made and response.status_code is read on None
NoRequestMade(t) ==
    /\ pc[t] = "loop"
    /\ LoopCondition(t)
    /\ ~IssuesRequest(reqType[t])
    /\ EndCall(t, Raised("AttributeError"))
    /\ UNCHANGED <<inst, retry, gToken, gOwner, gProject, gSHA, save, body, files>>
    /\ UNCHANGED <<kind, ret, trace, localVars>>

\* (mutant) a 4xx counts as one more attempt, like a 5xx
NextCounterRetry4xx(t, r) ==
    IF Is4xx(r) \/ Is5xx(r) THEN counter[t] + 1 ELSE counter[t]

\* the counter after a response: past the budget for 4xx, one more for 5xx
NextCounter(t, r) ==
    IF Is4xx(r) THEN retry[inst[t]] + 1
    ELSE IF Is5xx(r) THEN counter[t] + 1
    ELSE counter[t]

\* the sleep between attempts: after a 5xx with budget left
SleepsAfter(t, r) == Is5xx(r) /\ NextCounter(t, r) <= retry[inst[t]]

\* (mutant) the body is decoded after every attempt, whatever its status
DecodedBodyAlways(t, r) == _ParseJSON(PyText(r.text))

\* responseJSON after a response: the decoded body in the else branch (no
\* 4xx, no 5xx); the error branches leave it as it is
DecodedBody(t, r) ==
    IF Is4xx(r) \/ Is5xx(r) THEN responseJSON[t] ELSE _ParseJSON(PyText(r.text))

\* (mutant) the lock is given up for the time of the sleep
LockInLoopNotWhileSleeping(t, r) ==
    IF SleepsAfter(t, r) THEN Upd(lock, inst[t], NoThread) ELSE lock

\* the lock while the loop body handles a response and sleeps: the `with`
\* block is not left, the thread keeps the lock
LockInLoop(t, r) == lock

\* the server answers the request of thread t with r, and the loop body
\* classifies it
Receive(t, r) ==
    /\ pc[t] = "inflight"
    /\ response' = Upd(response, t, r)
    /\ errMsg' = IF Is5xx(r) THEN Upd(errMsg, t, r) ELSE errMsg
    /\ IF (Is4xx(r) \/ Is5xx(r)) /\ ErrorPayload(r).st = "raise"
       THEN /\ EndCall(t, Raised(ErrorPayload(r).val.v))
            /\ trace' = Upd(trace, t, Append(trace[t], StatusClass(r)))
            /\ UNCHANGED <<counter, responseJSON>>
       ELSE /\ counter' = Upd(counter, t, NextCounter(t, r))
            /\ responseJSON' = Upd(responseJSON, t, DecodedBody(t, r))
            /\ pc' = Upd(pc, t, IF SleepsAfter(t, r) THEN "sleep" ELSE "loop")
            /\ trace' = Upd(trace, t,
                    IF SleepsAfter(t, r) THEN trace[t] \o <<StatusClass(r), "sleep">>
                    ELSE Append(trace[t], StatusClass(r)))
            /\ lock' = LockInLoop(t, r)
            /\ UNCHANGED result
    /\ UNCHANGED <<inst, retry, gToken, gOwner, gProject, gSHA, save, body, files>>
    /\ UNCHANGED <<kind, reqType, ret, sent, logged>>

\* (mutant) the network failure is caught and the loop goes on
NetworkFailureRetried(t) ==
    /\ pc[t] = "inflight"
    /\ pc' = Upd(pc, t, "loop")
    /\ trace' = Upd(trace, t, Append(trace[t], "neterr"))
    /\ UNCHANGED <<cfgVars, kind, ret, result, localVars>>

\* the request of thread t fails at the network level: requests raises
NetworkFailure(t) ==
    /\ pc[t] = "inflight"
    /\ EndCall(t, Raised("ConnectionError"))
    /\ trace' = Upd(trace, t, Append(trace[t], "neterr"))
    /\ UNCHANGED <<inst, retry, gToken, gOwner, gProject, gSHA, save, body, files>>
    /\ UNCHANGED <<kind, ret, localVars>>

\* sleep(self.pause) ends
WakeUp(t) ==
    /\ pc[t] = "sleep"
    /\ pc' = Upd(pc, t, "loop")
    /\ UNCHANGED <<cfgVars, kind, ret, result, trace, localVars>>

\* the file GetFile writes: named after gSHA, holding the decoded content
SavedFiles(t, x) ==
    IF kind[t] = "GetFile" /\ GetFileHasContent(x) /\ save[inst[t]]
    THEN Upd(files, inst[t],
             {f \in files[inst[t]] : f.name # gSHA[inst[t]]}
                \cup {[name |-> gSHA[inst[t]], content |-> GetFileResult(x).val]})
    ELSE files

\* what the public method ends with once SendAPIRequest returned x
CallResult(t, x) ==
    IF kind[t] = "SendAPIRequest" THEN Returned(x) ELSE AccessorResult(kind[t], x)

\* (mutant) the error message is emitted only when the call's last response
\* is a server error, when the retry budget ran out
ErrorLoggedWhenBudgetSpent(t) == errMsg[t] # NoResponse /\ Is5xx(response[t])

\* if errMsg: uLogger.error("Server returns not `oK` status! ...")
ErrorLogged(t) == errMsg[t] # NoResponse

\* the loop ends: the error message is logged when errMsg is set, the lock
\* is released, responseJSON is returned, and an accessor finishes its work
LeaveLoop(t) ==
    /\ pc[t] = "loop"
    /\ ~LoopCondition(t)
    /\ logged' = Upd(logged, t, ErrorLogged(t))
    /\ ret' = Upd(ret, t, Returned(responseJSON[t]))
    /\ EndCall(t, CallResult(t, responseJSON[t]))
    /\ files' = SavedFiles(t, responseJSON[t])
    /\ UNCHANGED <<inst, retry, gToken, gOwner, gProject, gSHA, save, body>>
    /\ UNCHANGED <<kind, trace, reqType, counter, response, errMsg, responseJSON, sent>>

\* the caller takes the result; the call's frame is gone
Done(t) ==
    /\ pc[t] = "done"
    /\ pc' = Upd(pc, t, "idle")
    /\ kind' = Upd(kind, t, "")
    /\ reqType' = Upd(reqType, t, "")
    /\ counter' = Upd(counter, t, 0)
    /\ response' = Upd(response, t, NoResponse)
    /\ errMsg' = Upd(errMsg, t, NoResponse)
    /\ responseJSON' = Upd(responseJSON, t, EmptyDict)
    /\ ret' = Upd(ret, t, NoResult)
    /\ result' = Upd(result, t, NoResult)
    /\ sent' = Upd(sent, t, NoRequest)
    /\ trace' = Upd(trace, t, <<>>)
    /\ logged' = Upd(logged, t, FALSE)
    /\ UNCHANGED cfgVars

(***************************************************************************)
(* The specification: one caller thread on instance i1, which sets the     *)
(* fields between its calls (the calls are sequential).                    *)
(***************************************************************************)
\* no call is running on instance i
Quiet(i) == \A t \in Threads : inst[t] = i => pc[t] = "idle"

Configure(i) ==
    /\ Quiet(i)
    /\ UNCHANGED <<parseVars, mainVars>>
    /\ \/ \E n \in 0..MaxRetry : SetRetry(i, n)
       \/ \E value \in FieldValues : SetToken(i, value)
       \/ \E value \in FieldValues : SetOwner(i, value)
       \/ \E value \in FieldValues : SetProject(i, value)
       \/ \E value \in FieldValues : SetSHA(i, value)

Call(t) ==
    /\ UNCHANGED <<parseVars, mainVars>>
    /\ \/ \E rt \in ReqTypes : SendAPIRequest(t, rt)
       \/ Files(t)
       \/ GetFile(t)
       \/ Issues(t)
       \/ Milestones(t)
       \/ Releases(t)
       \/ Tags(t)
       \/ Branches(t)
       \/ Repositories(t)

\* the steps of SendAPIRequest inside a call of thread t
Transport(t, responses) ==
    \/ Acquire(t)
    \/ IssueRequest(t)
    \/ NoRequestMade(t)
    \/ \E r \in responses : Receive(t, r)
    \/ NetworkFailure(t)
    \/ WakeUp(t)
    \/ LeaveLoop(t)

Step(t, responses) ==
    /\ UNCHANGED <<parseVars, mainVars>>
    /\ \/ Transport(t, responses)
       \/ Done(t)

Next ==
    \/ Configure("i1")
    \/ Call("t1")
    \/ Step("t1", Responses)

Spec == Init /\ [][Next]_vars

\* The caller's thread takes the steps of its call: sleep(self.pause) ends,
\* and every HTTP attempt ends in a response or, at the latest after
\* self.timeout, in an exception.
SpecFair == Spec /\ WF_vars(Step("t1", Responses))

(***************************************************************************)
(* The specification of concurrent callers: both threads call the same     *)
(* instance, constructed with GITEE_OWNER and GITEE_PROJECT set and with   *)
(* or without GITEE_TOKEN; retry is set while no call runs.                *)
(***************************************************************************)
InitThreaded ==
    /\ inst = [t \in Threads |-> "i1"]
    /\ lock = [i \in Instances |-> NoThread]
    /\ retry = [i \in Instances |-> DefaultRetry]
    /\ gToken \in {[i \in Instances |-> value] : value \in {None, PyStr("v")}}
    /\ gOwner = [i \in Instances |-> PyStr("v")]
    /\ gProject = [i \in Instances |-> PyStr("v")]
    /\ gSHA = [i \in Instances |-> None]
    /\ save = [i \in Instances |-> FALSE]
    /\ body = [i \in Instances |-> None]
    /\ files = [i \in Instances |-> {}]
    /\ InitThreads
    /\ InitParse
    /\ InitMain

CallThreaded(t) ==
    /\ UNCHANGED <<parseVars, mainVars>>
    /\ \/ \E rt \in {"GET", "get", "PUT"} : SendAPIRequest(t, rt)
       \/ Issues(t)
       \/ Repositories(t)

NextThreaded ==
    \/ \E n \in 0..MaxRetry :
            Quiet("i1") /\ SetRetry("i1", n) /\ UNCHANGED <<parseVars, mainVars>>
    \/ \E t \in Threads : CallThreaded(t)
    \/ \E t \in Threads : Step(t, FewResponses)

SpecThreaded == InitThreaded /\ [][NextThreaded]_vars

\* A thread that can take a step of its call takes one: the scheduler runs
\* every thread, sleep(self.pause) ends, and every HTTP attempt ends in a
\* response or, at the latest after self.timeout, in an exception.  The
\* lock itself promises no order among the threads waiting for it.
Fairness == \A t \in Threads : WF_vars(Step(t, FewResponses))

SpecThreadedFair == SpecThreaded /\ Fairness

(***************************************************************************)
(* Properties.                                                             *)
(***************************************************************************)
\* how often event e occurs in the events tr of a call
Count(tr, e) == Cardinality({k \in 1..Len(tr) : tr[k] = e})

\* the instance's retry budget, as thread t's call reads it
Budget(t) == retry[inst[t]]

\* C1: a 4xx response at any attempt ends the retry loop: in the events of
\* a call nothing follows a 4xx response, no request and no sleep.
C1_ClientErrorEndsLoop ==
    \A t \in Threads : \A k \in 1..Len(trace[t]) :
        trace[t][k] = "4xx" => k = Len(trace[t])

\* a call that met a 5xx, slept, met a 4xx and ended with budget left
C1_Witness ==
    \E t \in Threads :
        /\ pc[t] = "done"
        /\ trace[t] = <<"request", "5xx", "sleep", "request", "4xx">>
        /\ Budget(t) >= 2
        /\ result[t].st = "return"

\* a SendAPIRequest call that ended by returning, its last response a 4xx
ReturnedAfter4xx(t) ==
    /\ pc[t] = "done"
    /\ Is4xx(response[t])
    /\ ret[t].st = "return"

OnlyServerErrors(t) ==
    /\ Count(trace[t], "5xx") > 0
    /\ \A k \in 1..Len(trace[t]) : trace[t][k] \in {"request", "5xx", "sleep"}

\* C3 (as claimed): a call all of whose attempts got a 5xx, with retry = N,
\* has issued N + 1 requests and slept N times, never after the last
\* attempt, and returns the empty mapping.
C3_ServerErrorsUseWholeBudget ==
    \A t \in Threads :
        (pc[t] = "done" /\ OnlyServerErrors(t)) =>
            /\ Count(trace[t], "request") = Budget(t) + 1
            /\ Count(trace[t], "sleep") = Budget(t)
            /\ trace[t][Len(trace[t])] = "5xx"
            /\ ret[t] = Returned(EmptyDict)

\* C4: at most one HTTP request of an instance is in flight at any moment.
C4_OneRequestInFlight ==
    \A t, u \in Threads :
        (t # u /\ inst[t] = inst[u]) => ~(pc[t] = "inflight" /\ pc[u] = "inflight")

\* a request in flight while an accessor call of another thread waits
C4_Witness ==
    \E t, u \in Threads :
        /\ t # u /\ inst[t] = inst[u]
        /\ pc[t] = "inflight"
        /\ pc[u] = "acquire" /\ kind[u] = "Issues"

\* C5: the lock is held for the whole retry loop, sleeps included, and
\* while one call is in its loop no other call on the same instance issues
\* an HTTP request.
C5_AttemptsDoNotInterleave ==
    /\ [](\A t \in Threads : pc[t] \in InSection => lock[inst[t]] = t)
    /\ [][\A t, u \in Threads :
            (t # u /\ inst[t] = inst[u] /\ pc[u] = "loop" /\ pc'[u] = "inflight")
                => pc[t] \notin InSection]_vars

\* one call sleeps between two attempts while another call waits
C5_Witness ==
    \E t, u \in Threads :
        /\ t # u /\ inst[t] = inst[u]
        /\ pc[t] = "sleep" /\ Count(trace[t], "request") > 0
        /\ pc[u] = "acquire"

\* the lock of instance i is held only by a thread of the instance that
\* is inside the locked section
HeldInsideSection(i) ==
    lock[i] # NoThread => (inst[lock[i]] = i /\ pc[lock[i]] \in InSection)

\* C6: the lock is released on every exit of the locked section, by a
\* return or by an exception: it is held only by a thread inside the
\* section, and a call that waits for it finds it free in the end (or has
\* taken it).
C6_LockReleasedOnExit ==
    /\ [](\A i \in Instances : HeldInsideSection(i))
    /\ \A t \in Threads :
            (pc[t] = "acquire") ~> (pc[t] # "acquire" \/ lock[inst[t]] = NoThread)

\* a call ended by an exception raised inside the loop, and a call that
\* waited has the lock
C6_Witness ==
    \E t, u \in Threads :
        /\ t # u /\ inst[t] = inst[u]
        /\ pc[t] = "done" /\ result[t] = Raised("ConnectionError")
        /\ lock[inst[u]] = u

\* C7: a network failure is not caught and not retried: it is the last
\* event of its call, which ends raising it.
C7_NetworkFailurePropagates ==
    \A t \in Threads : \A k \in 1..Len(trace[t]) :
        trace[t][k] = "neterr" =>
            /\ k = Len(trace[t])
            /\ pc[t] = "done"
            /\ result[t] = Raised("ConnectionError")

\* a network failure on the second attempt, with budget left
C7_Witness ==
    \E t \in Threads :
        /\ trace[t] = <<"request", "5xx", "sleep", "request", "neterr">>
        /\ Budget(t) >= 2
        /\ pc[t] = "done"

\* C8 (as claimed): a reqType other than GET or POST, lower and mixed case
\* included, raises "Incorrect value" before the lock is taken and before
\* any request; GET and POST issue a request of that method.
C8_OtherMethodsRejected ==
    \A t \in Threads :
        (kind[t] = "SendAPIRequest" /\ pc[t] # "idle") =>
            IF reqType[t] \in {"GET", "POST"}
            THEN sent[t] # NoRequest => sent[t].method = reqType[t]
            ELSE /\ pc[t] = "done"
                 /\ result[t] = Raised("Incorrect value")
                 /\ trace[t] = <<>>

\* a field that is None or the empty string
NoneOrEmpty(value) == value \in {None, PyStr("")}

\* the accessor call of thread t lacks a field it requires
LacksOwnerProjectOrRef(t) ==
    \/ NoneOrEmpty(gOwner[inst[t]])
    \/ NoneOrEmpty(gProject[inst[t]])
    \/ (kind[t] \in {"Files", "GetFile"} /\ NoneOrEmpty(gSHA[inst[t]]))

\* the call of thread t ended on the missing-configuration error with no
\* HTTP request issued
FailedFast(t) ==
    /\ pc[t] = "done"
    /\ result[t] = Raised("Some parameters are required")
    /\ trace[t] = <<>>
    /\ sent[t] = NoRequest

\* C9: Files, GetFile, Issues, Milestones, Releases, Tags and Branches
\* raise the missing-configuration error when gOwner or gProject is None
\* or empty, Files and GetFile also when gSHA is; no request is issued.
C9_OwnerProjectRefRequired ==
    \A t \in Threads :
        (kind[t] \in Accessors \ {"Repositories"} /\ LacksOwnerProjectOrRef(t))
            => FailedFast(t)

\* GetFile with owner and project set and an empty gSHA
C9_Witness ==
    \E t \in Threads :
        /\ kind[t] = "GetFile"
        /\ gOwner[inst[t]] = PyStr("v") /\ gProject[inst[t]] = PyStr("v")
        /\ gSHA[inst[t]] = PyStr("")
        /\ FailedFast(t)

\* C10: Repositories raises the missing-configuration error with no
\* request when gToken is None or empty, whatever gOwner and gProject are;
\* with a token, a transport result [] or {} gives the empty sequence.
C10_RepositoriesNeedsToken ==
    \A t \in Threads :
        kind[t] = "Repositories" =>
            /\ NoneOrEmpty(gToken[inst[t]]) => FailedFast(t)
            /\ (/\ ~NoneOrEmpty(gToken[inst[t]])
                /\ pc[t] = "done"
                /\ ret[t] \in {Returned(EmptyList), Returned(EmptyDict)})
                    => result[t] = Returned(EmptyList)

\* Repositories with a token and no owner, the transport returning {}
C10_Witness ==
    \E t \in Threads :
        /\ kind[t] = "Repositories"
        /\ gOwner[inst[t]] = None
        /\ ret[t] = Returned(EmptyDict)
        /\ result[t] = Returned(EmptyList)

\* the call of thread t ended, and the last thing it met was an error
\* response (4xx or 5xx)
EndedOnErrorResponse(t) ==
    /\ pc[t] = "done"
    /\ Len(trace[t]) > 0
    /\ trace[t][Len(trace[t])] \in {"4xx", "5xx"}

\* C11 (as claimed): for every 4xx or 5xx response, whatever the text of
\* its body, SendAPIRequest returns a value to the caller and raises no
\* exception.
C11_ErrorResponsesNeverRaise ==
    \A t \in Threads : EndedOnErrorResponse(t) => ret[t].st = "return"

\* the transport's value x is a non-empty value of the shape the accessor
\* expects: a mapping with a tree for Files, a non-empty sequence for the
\* list accessors
OfExpectedShape(name, x) ==
    IF name = "Files" THEN x.t = "dict" /\ (\E i \in 1..Len(x.v) : x.v[i].k = "tree")
    ELSE x.t = "list" /\ x.v # <<>>

\* the empty value of the accessor's type
EmptyOfType(name) == IF name = "Files" THEN EmptyDict ELSE EmptyList

\* C12 (as claimed): whenever the transport result is not a non-empty value
\* of the accessor's expected shape (empty or non-empty mapping, sequence,
\* number), Issues, Milestones, Releases, Tags, Branches and Repositories
\* return an empty sequence and Files returns an empty mapping; no accessor
\* ever returns None.
C12_EmptyOfExpectedType ==
    \A t \in Threads :
        /\ (/\ kind[t] \in ListAccessors \cup {"Files"}
            /\ pc[t] = "done"
            /\ ret[t].st = "return"
            /\ ~OfExpectedShape(kind[t], ret[t].val))
                => result[t] = Returned(EmptyOfType(kind[t]))
        /\ (kind[t] \in Accessors /\ result[t].st = "return") => result[t].val # None

(***************************************************************************)
(* The specification of the decoder alone: a caller hands _ParseJSON one   *)
(* input after another.                                                    *)
(***************************************************************************)
\* the longest flat sequence among the values encoded
MaxElems == 2

\* json.dumps(x): the source text of a value
RECURSIVE Encode(_), EncodeElems(_), EncodeMembers(_)
Encode(x) ==
    CASE x.t = "int" -> <<TN(x.v)>>
      [] x.t = "str" -> <<TS(x.v)>>
      [] x.t = "list" -> <<TP("[")>> \o EncodeElems(x.v) \o <<TP("]")>>
      [] OTHER -> <<TP("{")>> \o EncodeMembers(x.v) \o <<TP("}")>>

EncodeElems(xs) ==
    IF Len(xs) = 0 THEN <<>>
    ELSE IF Len(xs) = 1 THEN Encode(xs[1])
    ELSE Encode(xs[1]) \o <<TP(",")>> \o EncodeElems(Tail(xs))

EncodeMembers(kvs) ==
    IF Len(kvs) = 0 THEN <<>>
    ELSE IF Len(kvs) = 1 THEN <<TS(kvs[1].k), TP(":")>> \o Encode(kvs[1].v)
    ELSE <<TS(kvs[1].k), TP(":")>> \o Encode(kvs[1].v) \o <<TP(",")>>
            \o EncodeMembers(Tail(kvs))

\* the strings and numbers of the decoder's tests
Atoms == {PyInt(0), PyInt(123), PyStr(""), PyStr("123")}

\* sequences of atoms and mappings of the keys abc and xyz to atoms
FlatLists == {PyList(xs) : xs \in UNION {[1..n -> Atoms] : n \in 0..MaxElems}}
FlatDicts ==
    {EmptyDict}
        \cup {PyDict(<<[k |-> key, v |-> a]>>) : key \in {"abc", "xyz", "x"}, a \in Atoms}
        \cup {PyDict(<<[k |-> "abc", v |-> a], [k |-> "xyz", v |-> b]>>) : a, b \in Atoms}
FlatValues == Atoms \cup FlatLists \cup FlatDicts

\* one level of nesting: a container inside a sequence or a mapping
NestedValues ==
    {PyList(<<x>>) : x \in FlatLists \cup FlatDicts}
        \cup {PyDict(<<[k |-> "abc", v |-> x]>>) : x \in FlatLists \cup FlatDicts}
        \cup {PyList(<<a, x>>) : a \in {PyInt(123)}, x \in FlatDicts}

\* the values whose source text is handed to the decoder
JsonValues == FlatValues \cup NestedValues

\* text that is no JSON: prose, "{[]}", a value cut short, two values
MalformedTexts ==
    {TextHtml, TextWords,
     <<TP("{"), TP("["), TP("]"), TP("}")>>,
     <<TP("{"), TS("x"), TP(":")>>,
     <<TP("["), TN(123), TP(",")>>,
     <<TP("["), TN(123), TP(","), TP("]")>>,
     <<TP("{"), TS("x"), TN(123), TP("}")>>,
     <<TP("{"), TN(123), TP(":"), TN(123), TP("}")>>,
     <<TN(123), TN(123)>>,
     <<TP("]")>>}

\* data that is no string: None, numbers, lists and mappings parsed already
MistypedData ==
    {None, PyInt(0), PyInt(123), EmptyList, PyList(<<PyInt(123)>>), EmptyDict,
     PyDict(<<[k |-> "x", v |-> PyInt(123)]>>)}

RawInputs ==
    {PyText(Encode(x)) : x \in JsonValues}
        \cup {PyText(tx) : tx \in MalformedTexts \cup {TextEmpty}}
        \cup MistypedData

InitDecoder ==
    /\ inst = [t \in Threads |-> "i1"]
    /\ InitInstances
    /\ InitThreads
    /\ InitMain
    /\ rawData \in RawInputs
    /\ parsed = NoResult

\* the call _ParseJSON(rawData) runs and returns
ParseJSON ==
    /\ parsed = NoResult
    /\ parsed' = Returned(_ParseJSON(rawData))
    /\ UNCHANGED <<rawData, cfgVars, thVars, mainVars>>

\* the caller takes the value and makes its next call
NextInput ==
    /\ parsed # NoResult
    /\ rawData' \in RawInputs
    /\ parsed' = NoResult
    /\ UNCHANGED <<cfgVars, thVars, mainVars>>

NextDecoder == ParseJSON \/ NextInput

SpecDecoder == InitDecoder /\ [][NextDecoder]_vars

\* C13: _ParseJSON never raises: for every malformed or mistyped input
\* (non-JSON string, an already-parsed list, None, a number passed as a
\* non-string value, empty input) it returns an empty mapping.
C13_MalformedGivesEmptyMapping ==
    (/\ parsed # NoResult
     /\ \/ rawData \in MistypedData
        \/ rawData \in {PyText(tx) : tx \in MalformedTexts \cup {TextEmpty}})
        => parsed = Returned(EmptyDict)

\* the already-parsed list [123] was handed in and {} came back
C13_Witness ==
    /\ rawData = PyList(<<PyInt(123)>>)
    /\ parsed = Returned(EmptyDict)

\* C14: for every well-formed, non-empty JSON source string, _ParseJSON
\* returns the structure the string encodes (decode(encode(x)) = x for
\* strings, numbers and nested mappings and sequences), also when the
\* top-level value is a sequence or a number.
C14_DecodeInvertsEncode ==
    \A x \in JsonValues :
        (rawData = PyText(Encode(x)) /\ parsed # NoResult) => parsed = Returned(x)

\* the text [123, {"abc": "", "xyz": 0}] was decoded to that sequence
C14_Witness ==
    /\ rawData = PyText(<<TP("["), TN(123), TP(","), TP("{"), TS("abc"), TP(":"), TS(""),
                          TP(","), TS("xyz"), TP(":"), TN(0), TP("}"), TP("]")>>)
    /\ parsed = Returned(PyList(<<PyInt(123),
                    PyDict(<<[k |-> "abc", v |-> PyStr("")], [k |-> "xyz", v |-> PyInt(0)]>>)>>))

\* the body that belongs to the gToken of instance i: access_token=<gToken>
\* for a non-empty token, None otherwise
BodyOfToken(i) ==
    IF NoneOrEmpty(gToken[i]) THEN None ELSE [t |-> "form", v |-> gToken[i].v]

\* thread t is in an accessor call that passed its validation
ValidatedCall(t) == kind[t] \in Accessors /\ pc[t] # "idle" /\ ~FailedFast(t)

\* C15: every accessor call that passes validation sets the shared body to
\* access_token=<gToken> for a non-empty gToken and to None otherwise, before
\* it delegates to SendAPIRequest (whose requests carry that body); a call
\* without a token is not rejected, except by Repositories; and the body
\* changes at no other moment, so that after sequential calls it is the one
\* of the last validated call.
C15_BodyFollowsToken ==
    /\ [](\A t \in Threads :
            ValidatedCall(t) =>
                /\ body[inst[t]] = BodyOfToken(inst[t])
                /\ sent[t] # NoRequest => sent[t].body = BodyOfToken(inst[t]))
    /\ [](\A t \in Threads :
            (/\ kind[t] \in Accessors \ {"Repositories"}
             /\ pc[t] # "idle"
             /\ NoneOrEmpty(gToken[inst[t]])
             /\ ~LacksOwnerProjectOrRef(t)) => ~FailedFast(t))
    /\ [][\A i \in Instances :
            body'[i] # body[i] =>
                \E t \in Threads :
                    /\ inst[t] = i
                    /\ pc[t] = "idle" /\ pc'[t] = "acquire"
                    /\ kind'[t] \in Accessors
                    /\ body'[i] = BodyOfToken(i)]_vars

\* after the token was taken away, a direct SendAPIRequest call still sends
\* the body the last validated accessor call left
C15_Witness ==
    \E t \in Threads :
        /\ kind[t] = "SendAPIRequest"
        /\ gToken[inst[t]] = None
        /\ sent[t] = [method |-> "GET", body |-> [t |-> "form", v |-> "v"]]

(***************************************************************************)
(* The specification of two clients: thread t1 calls instance i1 and       *)
(* thread t2 calls instance i2, each constructed with GITEE_OWNER and      *)
(* GITEE_PROJECT set.                                                      *)
(***************************************************************************)
InitInstancesApart ==
    /\ inst = [t \in Threads |-> IF t = "t1" THEN "i1" ELSE "i2"]
    /\ lock = [i \in Instances |-> NoThread]
    /\ retry = [i \in Instances |-> DefaultRetry]
    /\ gToken = [i \in Instances |-> None]
    /\ gOwner = [i \in Instances |-> PyStr("v")]
    /\ gProject = [i \in Instances |-> PyStr("v")]
    /\ gSHA = [i \in Instances |-> None]
    /\ save = [i \in Instances |-> FALSE]
    /\ body = [i \in Instances |-> None]
    /\ files = [i \in Instances |-> {}]
    /\ InitThreads
    /\ InitParse
    /\ InitMain

CallApart(t) ==
    /\ UNCHANGED <<parseVars, mainVars>>
    /\ \/ \E rt \in {"GET", "get"} : SendAPIRequest(t, rt)
       \/ Issues(t)

NextApart ==
    \/ \E t \in Threads : CallApart(t)
    \/ \E t \in Threads : Step(t, FewResponses)

SpecApart == InitInstancesApart /\ [][NextApart]_vars

\* C16: calls on two different instances are not serialized with each
\* other: each instance has its own lock, held only by threads calling that
\* instance, and a call that reaches `with self.__lock` while no call of its
\* own instance is in the locked section takes the lock at once, whatever
\* runs on the other instance.
C16_NoCrossInstanceSerialization ==
    /\ \A i \in Instances : lock[i] # NoThread => inst[lock[i]] = i
    /\ \A t \in Threads :
            (/\ pc[t] = "acquire"
             /\ \A u \in Threads : (u # t /\ inst[u] = inst[t]) => pc[u] \notin InSection)
                => ENABLED Acquire(t)

\* a request of each instance is in flight at once, the one of i1 being a
\* retry after a 5xx
C16_Witness ==
    /\ inst["t1"] # inst["t2"]
    /\ pc["t1"] = "inflight" /\ Count(trace["t1"], "5xx") > 0
    /\ pc["t2"] = "inflight"

(***************************************************************************)
(* The command-line front end Main: it constructs one client, sets the     *)
(* options, runs the selected commands in the order of its if-statements   *)
(* and leaves through sys.exit(exitCode).  Main runs as thread t1 on       *)
(* instance i1, constructed with none of the GITEE_ variables set.         *)
(***************************************************************************)
\* the commands, in the order of Main's if-statements; each is named after
\* the accessor it invokes
CommandOrder == <<"Files", "GetFile", "Issues", "Milestones", "Releases", "Tags",
                  "Branches", "Repositories">>

\* the statement after the if-statement of cmd: the next command, or the
\* end of the try block
NextCommand(cmd) ==
    LET k == CHOOSE j \in 1..Len(CommandOrder) : CommandOrder[j] = cmd IN
    IF k < Len(CommandOrder) THEN CommandOrder[k + 1] ELSE "exit"

\* the command lines offered: any set of commands, with no option, with
\* owner and project, or with every option
ArgOptions ==
    {[token |-> None, owner |-> None, project |-> None, sha |-> None, save |-> FALSE],
     [token |-> None, owner |-> PyStr("v"), project |-> PyStr("v"), sha |-> None,
      save |-> FALSE],
     [token |-> PyStr("v"), owner |-> PyStr("v"), project |-> PyStr("v"),
      sha |-> PyStr("v"), save |-> TRUE]}

ArgSets ==
    {[commands |-> cs, token |-> o.token, owner |-> o.owner, project |-> o.project,
      sha |-> o.sha, save |-> o.save] : cs \in SUBSET Accessors, o \in ArgOptions}

\* what the server answers to the front end's requests
MainResponses ==
    {Response(200, TextList0), Response(200, TextNumber), Response(404, TextError),
     Response(500, TextEmpty), Response(500, TextWords)}

InitFrontEnd ==
    /\ inst = [t \in Threads |-> "i1"]
    /\ InitInstances
    /\ InitThreads
    /\ InitParse
    /\ args \in ArgSets
    /\ mainPc = "options"
    /\ exitCode = 0
    /\ ran = <<>>

\* `if args.x: projectModel.f = args.x` for one option
Option(field, value) == IF Truthy(value) THEN Upd(field, "i1", value) ELSE field

\* the options block of Main
MainOptions ==
    /\ mainPc = "options"
    /\ gToken' = Option(gToken, args.token)
    /\ gOwner' = Option(gOwner, args.owner)
    /\ gProject' = Option(gProject, args.project)
    /\ gSHA' = Option(gSHA, args.sha)
    /\ save' = IF args.save THEN Upd(save, "i1", TRUE) ELSE save
    /\ mainPc' = CommandOrder[1]
    /\ UNCHANGED <<inst, lock, retry, body, files, thVars, parseVars, args, exitCode, ran>>

\* `if args.cmd:` is false: the command is passed over
MainSkip(cmd) ==
    /\ mainPc = cmd
    /\ pc["t1"] = "idle"
    /\ cmd \notin args.commands
    /\ mainPc' = NextCommand(cmd)
    /\ UNCHANGED <<cfgVars, thVars, parseVars, args, exitCode, ran>>

\* `if args.cmd:` is true: the accessor is called
MainInvoke(cmd) ==
    /\ mainPc = cmd
    /\ cmd \in args.commands
    /\ Accessor("t1", cmd)
    /\ ran' = Append(ran, cmd)
    /\ UNCHANGED <<parseVars, args, mainPc, exitCode>>

\* the steps of the accessor's transport call
MainTransport ==
    /\ mainPc \in Accessors
    /\ \/ Acquire("t1")
       \/ IssueRequest("t1")
       \/ \E r \in MainResponses : Receive("t1", r)
       \/ NetworkFailure("t1")
       \/ WakeUp("t1")
       \/ LeaveLoop("t1")
    /\ UNCHANGED <<parseVars, mainVars>>

\* the accessor returned: Main goes on to the next if-statement
MainReturn(cmd) ==
    /\ mainPc = cmd
    /\ pc["t1"] = "done"
    /\ result["t1"].st = "return"
    /\ Done("t1")
    /\ mainPc' = NextCommand(cmd)
    /\ UNCHANGED <<parseVars, args, exitCode, ran>>

\* (mutant) the exception of a command is logged and the next command runs
AfterExceptionGoOn(cmd) == NextCommand(cmd)

\* where Main goes from `except Exception`: through finally to sys.exit
AfterException(cmd) == "exit"

\* the accessor raised: the except clause sets exitCode = 255
MainExcept(cmd) ==
    /\ mainPc = cmd
    /\ pc["t1"] = "done"
    /\ result["t1"].st = "raise"
    /\ exitCode' = 255
    /\ mainPc' = AfterException(cmd)
    /\ UNCHANGED <<cfgVars, thVars, parseVars, args, ran>>

Main ==
    \/ MainOptions
    \/ \E cmd \in Accessors :
        MainSkip(cmd) \/ MainInvoke(cmd) \/ MainReturn(cmd) \/ MainExcept(cmd)
    \/ MainTransport

SpecMain == InitFrontEnd /\ [][Main]_vars

\* the order of the commands the claim states
FixedOrder == <<"Files", "GetFile", "Issues", "Milestones", "Releases", "Tags",
                "Branches", "Repositories">>

\* the commands of the set cs among the first n of the fixed order, in
\* that order
RECURSIVE SelectedUpTo(_, _)
SelectedUpTo(cs, n) ==
    IF n = 0 THEN <<>>
    ELSE IF FixedOrder[n] \in cs THEN Append(SelectedUpTo(cs, n - 1), FixedOrder[n])
    ELSE SelectedUpTo(cs, n - 1)

\* xs is a prefix of ys
IsPrefix(xs, ys) == Len(xs) <= Len(ys) /\ \A k \in 1..Len(xs) : xs[k] = ys[k]

\* C17: Main exits with code 0 when every selected command returned and
\* with code 255 when a command raised; the commands run in the fixed order
\* files, get-file, issues, milestones, releases, tags, branches, repos, and
\* the first command that raises is the last one that runs.
C17_ExitCodeAndOrder ==
    /\ exitCode \in {0, 255}
    /\ IsPrefix(ran, SelectedUpTo(args.commands, Len(FixedOrder)))
    /\ exitCode = 255 =>
            /\ mainPc = "exit"
            /\ Len(ran) > 0 /\ kind["t1"] = ran[Len(ran)]
            /\ result["t1"].st = "raise"
    /\ (mainPc = "exit" /\ exitCode = 0) =>
            /\ ran = SelectedUpTo(args.commands, Len(FixedOrder))
            /\ result["t1"].st # "raise"
    /\ (pc["t1"] = "done" /\ result["t1"].st = "raise" /\ mainPc # "exit") =>
            ENABLED MainExcept(mainPc)

\* tags raised after files and issues had returned; branches and repos,
\* selected too, never ran
C17_Witness ==
    /\ args.commands = {"Files", "Issues", "Tags", "Branches", "Repositories"}
    /\ mainPc = "exit"
    /\ exitCode = 255
    /\ ran = <<"Files", "Issues", "Tags">>

\* the call of thread t has ended, and all it met were 5xx responses and,
\* at most, a non-error response
OnlyServerErrorsAndSuccess(t) ==
    /\ pc[t] = "done"
    /\ Count(trace[t], "request") > 0
    /\ \A k \in 1..Len(trace[t]) : trace[t][k] \in {"request", "5xx", "sleep", "ok"}

\* C18 (as claimed): if the responses to a SendAPIRequest call are k
\* consecutive 5xx responses (0 <= k <= retry) followed by a non-error
\* response, the call issues exactly k + 1 requests, sleeps exactly k times,
\* stops at that response and returns its decoded body: a call that met
\* only 5xx responses ends before a non-error response only when they were
\* more than retry.
C18_RetriesUntilNonError ==
    \A t \in Threads :
        OnlyServerErrorsAndSuccess(t) =>
            IF Count(trace[t], "ok") > 0
            THEN /\ trace[t][Len(trace[t])] = "ok"
                 /\ Count(trace[t], "5xx") <= Budget(t)
                 /\ Count(trace[t], "request") = Count(trace[t], "5xx") + 1
                 /\ Count(trace[t], "sleep") = Count(trace[t], "5xx")
                 /\ ret[t] = Returned(_ParseJSON(PyText(response[t].text)))
            ELSE Count(trace[t], "5xx") > Budget(t)

\* thread t is in a SendAPIRequest call with a valid method, GET or POST
ValidMethodCall(t) == pc[t] # "idle" /\ reqType[t] \in {"GET", "POST"}

\* C19: every SendAPIRequest call with a valid method (GET or POST) and
\* retry >= 0 terminates, provided each HTTP attempt returns or raises:
\* whatever the responses, the call issues at least one and at most
\* retry + 1 requests, and its counter never exceeds retry + 1.
C19_CallTerminatesWithinBudget ==
    /\ [](\A t \in Threads :
            ValidMethodCall(t) =>
                /\ counter[t] <= Budget(t) + 1
                /\ Count(trace[t], "request") <= Budget(t) + 1
                /\ pc[t] = "done" => Count(trace[t], "request") >= 1)
    /\ \A t \in Threads : (ValidMethodCall(t) /\ pc[t] = "acquire") ~> (pc[t] = "done")

\* a call with retry = 2 that ended after three requests, each answered
\* with a 5xx
C19_Witness ==
    \E t \in Threads :
        /\ ValidMethodCall(t)
        /\ pc[t] = "done"
        /\ Budget(t) = 2
        /\ counter[t] = 3
        /\ Count(trace[t], "request") = 3
        /\ Count(trace[t], "5xx") = 3

\* the Files call of thread t has ended and its transport call had
\* returned a value
FilesCallEnded(t) == kind[t] = "Files" /\ pc[t] = "done" /\ ret[t].st = "return"

\* C20 (as claimed): Files returns the decoded transport mapping unchanged
\* whenever it is a mapping that contains the key tree, also for an empty
\* tree, the other keys kept; for every other transport result (mapping
\* without tree, sequence, empty mapping) it returns an empty mapping.
C20_FilesReturnsMappingWithTree ==
    \A t \in Threads :
        FilesCallEnded(t) =>
            result[t] = Returned(IF OfExpectedShape("Files", ret[t].val)
                                 THEN ret[t].val ELSE EmptyDict)

(***************************************************************************)
(* The specification of downloads: one caller thread on instance i1,       *)
(* constructed with GITEE_OWNER and GITEE_PROJECT set, which sets gSHA,    *)
(* save and gToken between its GetFile, Files and SendAPIRequest calls.    *)
(***************************************************************************)
\* the values the caller gives gSHA
BlobNames == {PyStr(""), PyStr("v"), PyStr("w")}

\* what the server answers to a blob or tree request
BlobResponses ==
    {Response(200, TextBlob), Response(200, TextBlobEmpty), Response(200, TextBlobBackslash),
     Response(200, TextTree), Response(200, TextList0),
     Response(404, TextError), Response(500, TextEmpty)}

InitDownloads ==
    /\ inst = [t \in Threads |-> "i1"]
    /\ lock = [i \in Instances |-> NoThread]
    /\ retry = [i \in Instances |-> DefaultRetry]
    /\ gToken = [i \in Instances |-> None]
    /\ gOwner = [i \in Instances |-> PyStr("v")]
    /\ gProject = [i \in Instances |-> PyStr("v")]
    /\ gSHA = [i \in Instances |-> None]
    /\ save = [i \in Instances |-> FALSE]
    /\ body = [i \in Instances |-> None]
    /\ files = [i \in Instances |-> {}]
    /\ InitThreads
    /\ InitParse
    /\ InitMain

ConfigureDownloads ==
    /\ Quiet("i1")
    /\ UNCHANGED <<parseVars, mainVars>>
    /\ \/ \E value \in BlobNames : SetSHA("i1", value)
       \/ \E value \in BOOLEAN : SetSave("i1", value)
       \/ \E value \in {None, PyStr("v")} : SetToken("i1", value)

CallDownloads(t) ==
    /\ UNCHANGED <<parseVars, mainVars>>
    /\ \/ GetFile(t)
       \/ Files(t)
       \/ \E rt \in {"GET", "PUT"} : SendAPIRequest(t, rt)

StepDownloads(t) ==
    /\ UNCHANGED <<parseVars, mainVars>>
    /\ \/ Acquire(t)
       \/ IssueRequest(t)
       \/ \E r \in BlobResponses : Receive(t, r)
       \/ NetworkFailure(t)
       \/ WakeUp(t)
       \/ LeaveLoop(t)
       \/ Done(t)

NextDownloads ==
    \/ ConfigureDownloads
    \/ CallDownloads("t1")
    \/ StepDownloads("t1")

SpecDownloads == InitDownloads /\ [][NextDownloads]_vars

\* the transport's value x is a mapping with both content and size
HasContentAndSize(x) ==
    /\ x.t = "dict"
    /\ \E i \in 1..Len(x.v) : x.v[i].k = "content"
    /\ \E i \in 1..Len(x.v) : x.v[i].k = "size"

\* the step in which the GetFile call of thread t ends, its transport call
\* having returned
GetFileEnds(t) ==
    /\ kind[t] = "GetFile"
    /\ pc[t] = "loop" /\ pc'[t] = "done"
    /\ ret'[t].st = "return"

\* C21 (as claimed): GetFile returns the empty string when the transport
\* result is not a mapping containing both content and size, and then writes
\* no file even when save is set; a file named after gSHA is written if and
\* only if save is set and the result contains content and size, and its
\* content equals the returned string.
C21_FileWrittenIffSaveAndContent ==
    [][\A t \in Threads :
        GetFileEnds(t) =>
            /\ ~HasContentAndSize(ret'[t].val) => result'[t] = Returned(PyStr(""))
            /\ IF save[inst[t]] /\ HasContentAndSize(ret'[t].val)
               THEN /\ result'[t].st = "return"
                    /\ [name |-> gSHA[inst[t]], content |-> result'[t].val]
                            \in files'[inst[t]]
                    /\ \A f \in files'[inst[t]] :
                            f.name # gSHA[inst[t]] => f \in files[inst[t]]
               ELSE files' = files]_vars

(***************************************************************************)
(* The specification of unguarded fields: thread t1 calls SendAPIRequest   *)
(* and thread t2 calls Issues on instance i1, and retry is written at any  *)
(* moment, also while a call is in its loop.                               *)
(***************************************************************************)
\* the most requests one call issues in this specification (a call whose
\* retry is raised again and again would otherwise go on for ever)
MaxRequests == 2

\* what the server answers
SharedResponses ==
    {Response(200, TextList0), Response(404, TextError), Response(500, TextEmpty)}

\* a thread assigns a field of the instance, whatever the others do
WriteShared ==
    /\ UNCHANGED <<parseVars, mainVars>>
    /\ \E n \in 0..MaxRetry : SetRetry("i1", n)

\* t1 calls the transport itself, with the body it finds
DirectCallShared ==
    /\ UNCHANGED <<parseVars, mainVars>>
    /\ SendAPIRequest("t1", "GET")

\* t2 calls an accessor, which writes the body
AccessorCallShared ==
    /\ UNCHANGED <<parseVars, mainVars>>
    /\ Issues("t2")

StepShared(t) ==
    /\ UNCHANGED <<parseVars, mainVars>>
    /\ \/ Acquire(t)
       \/ (Count(trace[t], "request") < MaxRequests /\ IssueRequest(t))
       \/ \E r \in SharedResponses : Receive(t, r)
       \/ NetworkFailure(t)
       \/ WakeUp(t)
       \/ LeaveLoop(t)
       \/ Done(t)

NextShared ==
    \/ WriteShared
    \/ DirectCallShared
    \/ AccessorCallShared
    \/ \E t \in Threads : StepShared(t)

SpecShared == InitThreaded /\ [][NextShared]_vars

\* C22: the shared fields are not protected by the lock: an accessor call
\* of a thread that holds no lock is never held up (it writes body before
\* it comes to the lock), also while another call's loop holds the lock,
\* and every attempt of a call sends the body and tests the retry that the
\* instance has at that moment, not those of the start of the call.
C22_FieldsReadAnewOnEveryAttempt ==
    /\ [](\A t \in Threads : pc[t] = "idle" => ENABLED Issues(t))
    /\ [][\A t \in Threads :
            (pc[t] = "loop" /\ pc'[t] = "inflight") =>
                /\ sent'[t].body = body[inst[t]]
                /\ counter[t] <= retry[inst[t]]]_vars

\* while the direct call of t1 held the lock, retry was raised and t2's
\* Issues call wrote the body: after a 4xx, which had ended the loop under
\* the old retry, t1 has one more request in flight, sent with the new body
C22_Witness ==
    /\ kind["t1"] = "SendAPIRequest" /\ pc["t1"] = "inflight"
    /\ Count(trace["t1"], "4xx") > 0
    /\ sent["t1"].body = [t |-> "form", v |-> "v"]
    /\ kind["t2"] = "Issues" /\ pc["t2"] = "acquire"

\* the step in which a call of thread t is rejected: it begins and ends at
\* once, on the missing-configuration or the invalid-method error
Rejected(t) ==
    /\ pc[t] = "idle" /\ pc'[t] = "done"
    /\ result'[t] \in {Raised("Some parameters are required"), Raised("Incorrect value")}

\* C23: an accessor call that fails validation, and a SendAPIRequest call
\* rejected for an invalid method, do no partial work: body, gToken, gOwner,
\* gProject, gSHA and every other configuration field keep their values,
\* the lock is not acquired, no request is issued and no file is written.
C23_RejectedCallChangesNothing ==
    [][\A t \in Threads :
        Rejected(t) =>
            /\ body' = body
            /\ <<gToken, gOwner, gProject, gSHA, retry, save>>'
                    = <<gToken, gOwner, gProject, gSHA, retry, save>>
            /\ lock' = lock /\ lock[inst[t]] # t
            /\ files' = files
            /\ trace'[t] = <<>> /\ sent'[t] = NoRequest]_vars

\* GetFile was rejected for its empty gSHA while save was set, a token was
\* configured, and the body and a saved file were left from earlier calls
C23_Witness ==
    \E t \in Threads :
        /\ kind[t] = "GetFile" /\ pc[t] = "done"
        /\ result[t] = Raised("Some parameters are required")
        /\ gSHA[inst[t]] = PyStr("")
        /\ save[inst[t]]
        /\ gToken[inst[t]] = PyStr("v")
        /\ body[inst[t]] = None
        /\ files[inst[t]] = {[name |-> PyStr("w"), content |-> PyStr("hi")]}

\* the call of thread t received at least one 5xx response
SawServerError(t) == Count(trace[t], "5xx") > 0

\* C24 as stated: at the end of a SendAPIRequest call the error-level
\* message "Server returns not oK status" is emitted if and only if at
\* least one 5xx response was received during that call.
C24_Original ==
    \A t \in Threads :
        pc[t] = "done" => (logged[t] <=> SawServerError(t))

\* C24 (amended): when SendAPIRequest returns, the error-level message was
\* emitted if and only if at least one 5xx response was received during
\* the call, whether the budget ran out or a later attempt succeeded or
\* ended with a 4xx; a call that ends in an exception, raised by the guard,
\* by the network or while handling an error body, emits no such message
\* even after a 5xx.
C24_LoggedIffServerErrorAndReturned ==
    \A t \in Threads :
        pc[t] = "done" =>
            /\ ret[t].st = "return" => (logged[t] <=> SawServerError(t))
            /\ ret[t].st # "return" => ~logged[t]

\* a call whose first attempt met a 5xx and whose second attempt succeeded
\* has returned, and the message was emitted
C24_Witness ==
    \E t \in Threads :
        /\ pc[t] = "done" /\ ret[t].st = "return"
        /\ trace[t] = <<"request", "5xx", "sleep", "request", "ok">>
        /\ logged[t]
====
